---- MODULE Spec2Model ----
(***************************************************************************)
(* cities_teryt/models.py: the TERYT administrative hierarchy              *)
(* (Province, County, Municipality, Place with its City / Village proxy    *)
(* views, District), the rows the ORM stores for it, the parent accessors  *)
(* and the recursive get_display_name.                                     *)
(*                                                                         *)
(* A character string is a sequence of one-character strings, so that      *)
(* Python's `in` (substring) and str.format are computed, not assumed.     *)
(***************************************************************************)
EXTENDS Integers, Sequences, FiniteSets, TLC

VARIABLES province, county, municipality, place, district,
          last, rename_shim, target, stack, ret, pc

tables == <<province, county, municipality, place, district>>
call   == <<target, stack, ret, pc>>
vars   == <<province, county, municipality, place, district,
            last, rename_shim, target, stack, ret, pc>>

\* ------------------------------------------------------------------ bounds
\* Longest name drawn for an entity whose display name is computed.
MaxNameLen == 1

Alphabet == {"a", "b"}

\* Primary keys the import writes, per table.
ProvinceIds     == {"p1", "p2"}
CountyIds       == {"c1"}
MunicipalityIds == {"m1"}
PlaceIds        == {"x1", "x2"}
DistrictIds     == {"d1"}

\* Names the import writes.
ImportNames == {<<"a">>, <<"b">>}

\* ------------------------------------------------------------------ strings
Strings(n) == UNION {[1..k -> Alphabet] : k \in 0..n}

Names == Strings(MaxNameLen)

\* Python: s in t
Contains(t, s) ==
    \E i \in 0..(Len(t) - Len(s)) : SubSeq(t, i + 1, i + Len(s)) = s

EndsWith(t, s) ==
    /\ Len(s) <= Len(t)
    /\ SubSeq(t, Len(t) - Len(s) + 1, Len(t)) = s

\* ------------------------------------------------------------------ fields
\* Municipality.MUNICIPALITY_TYPE_CHOICES
MUNICIPALITY_TYPE_CHOICES == {"1", "2", "3", "4", "5"}

\* Place.CITY, Place.VILLAGE, Place.PLACE_TYPE_CHOICES
CITY == "96"

VILLAGE == "01"

PLACE_TYPE_CHOICES == {CITY, VILLAGE}

\* Values a writer may put in the type columns: CharField(max_length=1) and
\* CharField(max_length=2) take any string of that length.
MunicipalityTypeInputs == {"1", "5", "9"}

PlaceTypeInputs == {CITY, VILLAGE, "00"}

\* A foreign key that was never set.
None == "None"

\* What the related-object descriptor raises for an unset or dangling key.
DoesNotExist == "DoesNotExist"

IntegrityError == "IntegrityError"

\* ------------------------------------------------------------------ rows
Ids(table) == {r.id : r \in table}

Rows(table, id) == {r \in table : r.id = id}

Row(table, id) == CHOOSE r \in table : r.id = id

\* class Base: the columns the hierarchy and the display name read.
ProvinceRow(id, name) == [id |-> id, name |-> name]

CountyRow(id, name, p) == [id |-> id, name |-> name, province |-> p]

MunicipalityRow(id, name, p, c, t) ==
    [id |-> id, name |-> name, province |-> p, county |-> c, type |-> t]

PlaceRow(id, name, p, c, m, t) ==
    [id |-> id, name |-> name, province |-> p, county |-> c,
     municipality |-> m, type |-> t]

DistrictRow(id, name, p, c, m, x) ==
    [id |-> id, name |-> name, province |-> p, county |-> c,
     municipality |-> m, city |-> x]

\* id = CharField(primary_key=True), unique_together = ('id', 'name'):
\* an INSERT is refused when a row of the table has the key already.
InsertNoCheck(table, row) == TRUE

InsertAllowed(table, row) ==
    /\ row.id \notin Ids(table)
    /\ ~ \E r \in table : r.id = row.id /\ r.name = row.name

\* ForeignKey(..., on_delete=CASCADE): the referenced row must be stored.
FkOk(table, id) == id \in Ids(table)

Upsert(table, row) == {r \in table : r.id # row.id} \cup {row}

\* ------------------------------------------------------------------ objects
\* A model instance: its class and its primary key.
Obj(kind, id) == [kind |-> kind, id |-> id]

\* Python's None, and the exception an accessor raises, as objects.
NoneObj == Obj("NoneType", "None")

Raised(what) == Obj(DoesNotExist, what)

\* What a call of get_display_name has produced: nothing yet, a string, or
\* an exception on its way up.
NoRet == [tag |-> "none", val |-> <<>>]

Str(v) == [tag |-> "str", val |-> v]

Exc == [tag |-> "raise", val |-> <<>>]

\* City and Village are proxies (Meta.proxy = True): they share Place's table.
TableOf(kind) ==
    CASE kind = "Province" -> province
      [] kind = "County" -> county
      [] kind = "Municipality" -> municipality
      [] kind \in {"Place", "City", "Village"} -> place
      [] kind = "District" -> district

Entities ==
    UNION {{Obj(k, id) : id \in Ids(TableOf(k))} :
             k \in {"Province", "County", "Municipality", "Place", "District"}}

\* Reading a ForeignKey attribute: the instance of the referenced class with
\* that key, or DoesNotExist when the key is unset or no row has it.
Related(kind, id) ==
    IF id \in Ids(TableOf(kind)) THEN Obj(kind, id) ELSE Raised(id)

\* The parent properties.
Province_parent(e) == NoneObj

County_parent(e) == Related("Province", Row(county, e.id).province)

Municipality_parent(e) == Related("County", Row(municipality, e.id).county)

Place_parent_county(e) == Related("County", Row(place, e.id).county)

Place_parent(e) == Related("Municipality", Row(place, e.id).municipality)

District_parent_self(e) == Obj("District", e.id)

District_parent(e) == Related("City", Row(district, e.id).city)

parent(e) ==
    CASE e.kind = "Province" -> Province_parent(e)
      [] e.kind = "County" -> County_parent(e)
      [] e.kind = "Municipality" -> Municipality_parent(e)
      [] e.kind \in {"Place", "City", "Village"} -> Place_parent(e)
      [] e.kind = "District" -> District_parent(e)

\* ------------------------------------------------------------------ views
\* CityManager.get_query_set / VillageManager.get_query_set, applied to the
\* queryset of the base manager (every row of the place table).
CityManager_get_query_set(rows) == {r \in rows : r.type = "96"}

VillageManager_get_query_set(rows) == {r \in rows : r.type = "01"}

\* City.objects.all() / Village.objects.all(): Manager.all() builds its
\* queryset with get_queryset(); the managers' get_query_set() is what it
\* runs only where the framework's rename shim maps the one to the other.
City_objects_all ==
    IF rename_shim THEN CityManager_get_query_set(place) ELSE place

Village_objects_all ==
    IF rename_shim THEN VillageManager_get_query_set(place) ELSE place

\* ------------------------------------------------------------------ cascade
\* on_delete=models.CASCADE: the rows of each table the collector deletes with
\* the provinces P, counties C, municipalities M and places X being deleted.
CountyCascade(P) == {r.id : r \in {c \in county : c.province \in P}}

MunicipalityCascade(P, C) ==
    {r.id : r \in {m \in municipality : m.province \in P \/ m.county \in C}}

PlaceCascadeNearest(P, C, M) ==
    {r.id : r \in {x \in place : x.municipality \in M}}

PlaceCascade(P, C, M) ==
    {r.id : r \in {x \in place : \/ x.province \in P
                                 \/ x.county \in C
                                 \/ x.municipality \in M}}

DistrictCascade(P, C, M, X) ==
    {r.id : r \in {d \in district : \/ d.province \in P
                                    \/ d.county \in C
                                    \/ d.municipality \in M
                                    \/ d.city \in X}}

\* Model.delete(): the collected rows are removed in one transaction.
Delete(P, C0, M0, X0, D0) ==
    LET C == C0 \cup CountyCascade(P)
        M == M0 \cup MunicipalityCascade(P, C)
        X == X0 \cup PlaceCascade(P, C, M)
        D == D0 \cup DistrictCascade(P, C, M, X)
    IN  /\ province' = {r \in province : r.id \notin P}
        /\ county' = {r \in county : r.id \notin C}
        /\ municipality' = {r \in municipality : r.id \notin M}
        /\ place' = {r \in place : r.id \notin X}
        /\ district' = {r \in district : r.id \notin D}

\* The write the caller made last and how it ended.
Did(op, kind) == last' = [op |-> op, kind |-> kind, err |-> ""]

Refused(op, kind) ==
    /\ last' = [op |-> op, kind |-> kind, err |-> IntegrityError]
    /\ UNCHANGED tables

\* ------------------------------------------------------------------ writes
\* objects.create(...) / save(force_insert=True): an INSERT.
CreateProvince(id, name) ==
    /\ pc = "idle"
    /\ LET row == ProvinceRow(id, name)
       IN  IF InsertAllowed(province, row)
           THEN /\ province' = province \cup {row}
                /\ Did("create", "Province")
                /\ UNCHANGED <<county, municipality, place, district>>
           ELSE Refused("create", "Province")
    /\ UNCHANGED <<rename_shim, call>>

\* save() of an instance whose key is stored: an UPDATE of its row.
SaveProvince(id, name) ==
    /\ pc = "idle"
    /\ id \in Ids(province)
    /\ province' = Upsert(province, ProvinceRow(id, name))
    /\ Did("save", "Province")
    /\ UNCHANGED <<county, municipality, place, district, rename_shim, call>>

DeleteProvince(id) ==
    /\ pc = "idle"
    /\ id \in Ids(province)
    /\ Delete({id}, {}, {}, {}, {})
    /\ Did("delete", "Province")
    /\ UNCHANGED <<rename_shim, call>>

CreateCounty(id, name, p) ==
    /\ pc = "idle"
    /\ LET row == CountyRow(id, name, p)
       IN  IF InsertAllowed(county, row) /\ FkOk(province, p)
           THEN /\ county' = county \cup {row}
                /\ Did("create", "County")
                /\ UNCHANGED <<province, municipality, place, district>>
           ELSE Refused("create", "County")
    /\ UNCHANGED <<rename_shim, call>>

SaveCounty(id, name, p) ==
    /\ pc = "idle"
    /\ id \in Ids(county)
    /\ IF FkOk(province, p)
       THEN /\ county' = Upsert(county, CountyRow(id, name, p))
            /\ Did("save", "County")
            /\ UNCHANGED <<province, municipality, place, district>>
       ELSE Refused("save", "County")
    /\ UNCHANGED <<rename_shim, call>>

DeleteCounty(id) ==
    /\ pc = "idle"
    /\ id \in Ids(county)
    /\ Delete({}, {id}, {}, {}, {})
    /\ Did("delete", "County")
    /\ UNCHANGED <<rename_shim, call>>

\* The type column is written as given: no code of the models compares it
\* with the choices before the row is stored.
CreateMunicipality(id, name, p, c, t) ==
    /\ pc = "idle"
    /\ LET row == MunicipalityRow(id, name, p, c, t)
       IN  IF /\ InsertAllowed(municipality, row)
              /\ FkOk(province, p)
              /\ FkOk(county, c)
           THEN /\ municipality' = municipality \cup {row}
                /\ Did("create", "Municipality")
                /\ UNCHANGED <<province, county, place, district>>
           ELSE Refused("create", "Municipality")
    /\ UNCHANGED <<rename_shim, call>>

SaveMunicipality(id, name, p, c, t) ==
    /\ pc = "idle"
    /\ id \in Ids(municipality)
    /\ IF FkOk(province, p) /\ FkOk(county, c)
       THEN /\ municipality' =
                   Upsert(municipality, MunicipalityRow(id, name, p, c, t))
            /\ Did("save", "Municipality")
            /\ UNCHANGED <<province, county, place, district>>
       ELSE Refused("save", "Municipality")
    /\ UNCHANGED <<rename_shim, call>>

DeleteMunicipality(id) ==
    /\ pc = "idle"
    /\ id \in Ids(municipality)
    /\ Delete({}, {}, {id}, {}, {})
    /\ Did("delete", "Municipality")
    /\ UNCHANGED <<rename_shim, call>>

CreatePlace(id, name, p, c, m, t) ==
    /\ pc = "idle"
    /\ LET row == PlaceRow(id, name, p, c, m, t)
       IN  IF /\ InsertAllowed(place, row)
              /\ FkOk(province, p)
              /\ FkOk(county, c)
              /\ FkOk(municipality, m)
           THEN /\ place' = place \cup {row}
                /\ Did("create", "Place")
                /\ UNCHANGED <<province, county, municipality, district>>
           ELSE Refused("create", "Place")
    /\ UNCHANGED <<rename_shim, call>>

SavePlace(id, name, p, c, m, t) ==
    /\ pc = "idle"
    /\ id \in Ids(place)
    /\ IF FkOk(province, p) /\ FkOk(county, c) /\ FkOk(municipality, m)
       THEN /\ place' = Upsert(place, PlaceRow(id, name, p, c, m, t))
            /\ Did("save", "Place")
            /\ UNCHANGED <<province, county, municipality, district>>
       ELSE Refused("save", "Place")
    /\ UNCHANGED <<rename_shim, call>>

DeletePlace(id) ==
    /\ pc = "idle"
    /\ id \in Ids(place)
    /\ Delete({}, {}, {}, {id}, {})
    /\ Did("delete", "Place")
    /\ UNCHANGED <<rename_shim, call>>

\* District.city = ForeignKey(City): City is a proxy of Place, so the key
\* references the place table, whatever the type of the row.
CreateDistrict(id, name, p, c, m, x) ==
    /\ pc = "idle"
    /\ LET row == DistrictRow(id, name, p, c, m, x)
       IN  IF /\ InsertAllowed(district, row)
              /\ FkOk(province, p)
              /\ FkOk(county, c)
              /\ FkOk(municipality, m)
              /\ FkOk(place, x)
           THEN /\ district' = district \cup {row}
                /\ Did("create", "District")
                /\ UNCHANGED <<province, county, municipality, place>>
           ELSE Refused("create", "District")
    /\ UNCHANGED <<rename_shim, call>>

SaveDistrict(id, name, p, c, m, x) ==
    /\ pc = "idle"
    /\ id \in Ids(district)
    /\ IF /\ FkOk(province, p)
          /\ FkOk(county, c)
          /\ FkOk(municipality, m)
          /\ FkOk(place, x)
       THEN /\ district' = Upsert(district, DistrictRow(id, name, p, c, m, x))
            /\ Did("save", "District")
            /\ UNCHANGED <<province, county, municipality, place>>
       ELSE Refused("save", "District")
    /\ UNCHANGED <<rename_shim, call>>

DeleteDistrict(id) ==
    /\ pc = "idle"
    /\ id \in Ids(district)
    /\ Delete({}, {}, {}, {}, {id})
    /\ Did("delete", "District")
    /\ UNCHANGED <<rename_shim, call>>

\* ------------------------------------------------------------------ store
\* An empty database. rename_shim: whether the installed framework still
\* routes Manager.get_queryset() to a subclass's get_query_set() (the
\* pre-rename name the managers of this file define); the source pins no
\* framework version, so either build is possible.
Init ==
    /\ province = {}
    /\ county = {}
    /\ municipality = {}
    /\ place = {}
    /\ district = {}
    /\ last = [op |-> "", kind |-> "", err |-> ""]
    /\ rename_shim \in BOOLEAN
    /\ target = NoneObj
    /\ stack = <<>>
    /\ ret = NoRet
    /\ pc = "idle"

\* The writes an import issues, with names N, province keys P, place keys X
\* and type values MT, XT.
Writes(N, P, X, MT, XT) ==
    \/ \E id \in P, n \in N : CreateProvince(id, n)
    \/ \E id \in P, n \in N : SaveProvince(id, n)
    \/ \E id \in P : DeleteProvince(id)
    \/ \E id \in CountyIds, n \in N, p \in P : CreateCounty(id, n, p)
    \/ \E id \in CountyIds, n \in N, p \in P : SaveCounty(id, n, p)
    \/ \E id \in CountyIds : DeleteCounty(id)
    \/ \E id \in MunicipalityIds, n \in N, p \in P, c \in CountyIds, t \in MT :
          CreateMunicipality(id, n, p, c, t)
    \/ \E id \in MunicipalityIds, n \in N, p \in P, c \in CountyIds, t \in MT :
          SaveMunicipality(id, n, p, c, t)
    \/ \E id \in MunicipalityIds : DeleteMunicipality(id)
    \/ \E id \in X, n \in N, p \in P, c \in CountyIds,
          m \in MunicipalityIds, t \in XT :
          CreatePlace(id, n, p, c, m, t)
    \/ \E id \in X, n \in N, p \in P, c \in CountyIds,
          m \in MunicipalityIds, t \in XT :
          SavePlace(id, n, p, c, m, t)
    \/ \E id \in X : DeletePlace(id)
    \/ \E id \in DistrictIds, n \in N, p \in P, c \in CountyIds,
          m \in MunicipalityIds, x \in X :
          CreateDistrict(id, n, p, c, m, x)
    \/ \E id \in DistrictIds, n \in N, p \in P, c \in CountyIds,
          m \in MunicipalityIds, x \in X :
          SaveDistrict(id, n, p, c, m, x)
    \/ \E id \in DistrictIds : DeleteDistrict(id)

\* The hierarchy under import: every key and type value, one name.
Next == Writes({<<"a">>}, ProvinceIds, PlaceIds,
               MunicipalityTypeInputs, PlaceTypeInputs)

Spec == Init /\ [][Next]_vars

\* The names under import: every name, one place key, the valid types.
NextNames == Writes(ImportNames, ProvinceIds, {"x1"}, {"1"}, {CITY})

SpecNames == Init /\ [][NextNames]_vars

\* ------------------------------------------------------------------ display
name(e) == Row(TableOf(e.kind), e.id).name

\* Base.get_display_name, lines 38-40: the two return statements.
FormatAlways(nm, par) == nm \o <<",", " ">> \o par

FormatReversed(nm, par) ==
    IF Contains(par, nm) THEN par ELSE par \o <<",", " ">> \o nm

Format(nm, par) ==
    IF Contains(par, nm) THEN par ELSE nm \o <<",", " ">> \o par

Top == stack[Len(stack)]

Pop == SubSeq(stack, 1, Len(stack) - 1)

Finish == pc' = IF Len(stack) = 1 THEN "done" ELSE "running"

\* A caller invokes e.get_display_name().
GetDisplayName(e) ==
    /\ pc = "idle"
    /\ e \in Entities
    /\ target' = e
    /\ stack' = <<e>>
    /\ ret' = NoRet
    /\ pc' = "running"
    /\ UNCHANGED <<tables, last, rename_shim>>

\* Province.get_display_name: the name, no recursion.
ProvinceReturn ==
    /\ pc = "running"
    /\ ret = NoRet
    /\ Top.kind = "Province"
    /\ ret' = Str(name(Top))
    /\ stack' = Pop
    /\ Finish
    /\ UNCHANGED <<tables, last, rename_shim, target>>

\* Base.get_display_name, line 37: self.parent is read and its
\* get_display_name is called.
CallParent ==
    /\ pc = "running"
    /\ ret = NoRet
    /\ Top.kind # "Province"
    /\ parent(Top).kind \notin {DoesNotExist, "NoneType"}
    /\ stack' = Append(stack, parent(Top))
    /\ UNCHANGED <<ret, pc, tables, last, rename_shim, target>>

ParentPlaceholder ==
    /\ pc = "running"
    /\ ret = NoRet
    /\ Top.kind # "Province"
    /\ parent(Top).kind \in {DoesNotExist, "NoneType"}
    /\ ret' = Str(name(Top))
    /\ stack' = Pop
    /\ Finish
    /\ UNCHANGED <<tables, last, rename_shim, target>>

\* Line 37 when self.parent raises (or is None, which has no
\* get_display_name): the frame is left by the exception.
ParentRaises ==
    /\ pc = "running"
    /\ ret = NoRet
    /\ Top.kind # "Province"
    /\ parent(Top).kind \in {DoesNotExist, "NoneType"}
    /\ ret' = Exc
    /\ stack' = Pop
    /\ Finish
    /\ UNCHANGED <<tables, last, rename_shim, target>>

\* Lines 38-40: the parent's call has returned a string.
Return ==
    /\ pc = "running"
    /\ ret.tag = "str"
    /\ ret' = Str(Format(name(Top), ret.val))
    /\ stack' = Pop
    /\ Finish
    /\ UNCHANGED <<tables, last, rename_shim, target>>

\* No frame catches: the exception leaves each caller in turn.
Unwind ==
    /\ pc = "running"
    /\ ret.tag = "raise"
    /\ stack' = Pop
    /\ Finish
    /\ UNCHANGED <<ret, tables, last, rename_shim, target>>

Step == ProvinceReturn \/ CallParent \/ ParentRaises \/ Return \/ Unwind

NextDisplay ==
    \/ \E e \in Entities : GetDisplayName(e)
    \/ ProvinceReturn
    \/ CallParent
    \/ ParentRaises
    \/ Return
    \/ Unwind

\* A key no row has.
Gone == "gone"

\* One entity of each kind, chained d1 -> x1 -> m1 -> c1 -> p1, and a second
\* province p2; rc, rm, rx, rd are the parent keys of c1, m1, x1, d1 and far
\* is the province key the lower levels carry.
Hierarchy(np, nc, nm, nx, nd, far, rc, rm, rx, rd) ==
    /\ province = {ProvinceRow("p1", np), ProvinceRow("p2", <<"b">>)}
    /\ county = {CountyRow("c1", nc, rc)}
    /\ municipality = {MunicipalityRow("m1", nm, far, rm, "1")}
    /\ place = {PlaceRow("x1", nx, far, "c1", rx, CITY)}
    /\ district = {DistrictRow("d1", nd, far, "c1", "m1", rd)}
    /\ last = [op |-> "", kind |-> "", err |-> ""]
    /\ rename_shim = FALSE
    /\ target = NoneObj
    /\ stack = <<>>
    /\ ret = NoRet
    /\ pc = "idle"

\* A well-formed hierarchy, with every choice of names. The province key of
\* m1, x1 and d1 names p2, not the province p1 of their county: a display
\* name that read it would end with the name of p2.
InitWellFormed ==
    \E np \in Names, nc \in Names, nm \in Names, nx \in Names, nd \in Names :
       Hierarchy(np, nc, nm, nx, nd, "p2", "p1", "c1", "m1", "x1")

\* Instances one of whose parent keys is unset or names no row (an instance
\* not saved yet, or rows of a database that does not enforce the keys).
InitBroken ==
    \E n \in [1..5 -> {<<"a">>, <<"b">>}], lvl \in 2..5, bad \in {None, Gone} :
       Hierarchy(n[1], n[2], n[3], n[4], n[5], "p1",
                 IF lvl = 2 THEN bad ELSE "p1",
                 IF lvl = 3 THEN bad ELSE "c1",
                 IF lvl = 4 THEN bad ELSE "m1",
                 IF lvl = 5 THEN bad ELSE "x1")

InitDisplay == InitWellFormed \/ InitBroken

SpecDisplay == InitDisplay /\ [][NextDisplay]_vars /\ WF_vars(Step)

\* ------------------------------------------------------------------ properties
\* Every foreign key of every stored row names a stored row.
NoDanglingKey ==
    /\ \A c \in county : c.province \in Ids(province)
    /\ \A m \in municipality :
          m.province \in Ids(province) /\ m.county \in Ids(county)
    /\ \A x \in place :
          /\ x.province \in Ids(province)
          /\ x.county \in Ids(county)
          /\ x.municipality \in Ids(municipality)
    /\ \A d \in district :
          /\ d.province \in Ids(province)
          /\ d.county \in Ids(county)
          /\ d.municipality \in Ids(municipality)
          /\ d.city \in Ids(place)

\* C2: the parent of a Province is None; the parent of any other stored
\* entity is a stored instance of the kind one level up, the one its nearest
\* key names (County -> Province, Municipality -> County, Place ->
\* Municipality, District -> City), whatever its farther keys hold.
C2_ParentIsNearest ==
    \A e \in Entities :
       LET r == Row(TableOf(e.kind), e.id)
       IN  CASE e.kind = "Province" -> parent(e) = NoneObj
             [] e.kind = "County" ->
                   /\ parent(e) = Obj("Province", r.province)
                   /\ r.province \in Ids(province)
             [] e.kind = "Municipality" ->
                   /\ parent(e) = Obj("County", r.county)
                   /\ r.county \in Ids(county)
             [] e.kind = "Place" ->
                   /\ parent(e) = Obj("Municipality", r.municipality)
                   /\ r.municipality \in Ids(municipality)
             [] e.kind = "District" ->
                   /\ parent(e) = Obj("City", r.city)
                   /\ r.city \in Ids(place)

\* A place and a district are stored whose province key is not the province
\* their parent chain leads to, beside a stored county and municipality.
C2_Witness ==
    /\ \E x \in place :
          x.province # Row(county, Row(municipality, x.municipality).county).province
    /\ \E d \in district :
          d.province # Row(county, d.county).province
    /\ Ids(province) = ProvinceIds

\* C3: the City view lists exactly the places of type "96" and the Village
\* view exactly those of type "01".
C3_TypedViews ==
    /\ City_objects_all = {r \in place : r.type = CITY}
    /\ Village_objects_all = {r \in place : r.type = VILLAGE}

\* The rows the parent chain puts beneath province id.
CountiesBeneath(id) == {c \in county : c.province = id}

MunicipalitiesBeneath(id) ==
    {m \in municipality : m.county \in Ids(CountiesBeneath(id))}

PlacesBeneath(id) ==
    {x \in place : x.municipality \in Ids(MunicipalitiesBeneath(id))}

DistrictsBeneath(id) ==
    {d \in district : d.city \in Ids(PlacesBeneath(id))}

\* C4: deleting a Province removes every County, Municipality, Place and
\* District beneath it, and no write leaves a row with a key (nearest or
\* denormalized) of a row that is not stored.
C4_CascadingDelete ==
    [][/\ NoDanglingKey'
       /\ \A id \in ProvinceIds :
             DeleteProvince(id) =>
                /\ id \notin Ids(province')
                /\ Ids(county') \cap Ids(CountiesBeneath(id)) = {}
                /\ Ids(municipality') \cap Ids(MunicipalitiesBeneath(id)) = {}
                /\ Ids(place') \cap Ids(PlacesBeneath(id)) = {}
                /\ Ids(district') \cap Ids(DistrictsBeneath(id)) = {}]_vars

\* A province has just been deleted; the other one is left, and so are rows
\* that were not beneath the deleted one.
C4_Witness ==
    /\ last = [op |-> "delete", kind |-> "Province", err |-> ""]
    /\ Cardinality(province) = 1
    /\ county # {}

UniqueIdName(table) ==
    \A r1 \in table, r2 \in table :
       (r1.id = r2.id /\ r1.name = r2.name) => r1 = r2

\* C5: an insert of a row whose id and name are those of a stored row of the
\* same kind is refused with IntegrityError and changes no table; the pair
\* (id, name) is unique within every kind.
C5_UniqueInsert ==
    [][/\ \A t \in {province', county', municipality', place', district'} :
             UniqueIdName(t)
       /\ \A r \in province :
             CreateProvince(r.id, r.name)
                => (last'.err = IntegrityError /\ UNCHANGED tables)
       /\ \A r \in county :
             (\E p \in ProvinceIds : CreateCounty(r.id, r.name, p))
                => (last'.err = IntegrityError /\ UNCHANGED tables)
       /\ \A r \in municipality :
             (\E p \in ProvinceIds, c \in CountyIds,
                 t \in MunicipalityTypeInputs :
                 CreateMunicipality(r.id, r.name, p, c, t))
                => (last'.err = IntegrityError /\ UNCHANGED tables)
       /\ \A r \in place :
             (\E p \in ProvinceIds, c \in CountyIds, m \in MunicipalityIds,
                 t \in PlaceTypeInputs :
                 CreatePlace(r.id, r.name, p, c, m, t))
                => (last'.err = IntegrityError /\ UNCHANGED tables)
       /\ \A r \in district :
             (\E p \in ProvinceIds, c \in CountyIds, m \in MunicipalityIds,
                 x \in PlaceIds :
                 CreateDistrict(r.id, r.name, p, c, m, x))
                => (last'.err = IntegrityError /\ UNCHANGED tables)]_vars

\* An insert of a Province was refused while provinces are stored: only a
\* duplicate key refuses it.
C5_Witness ==
    /\ last = [op |-> "create", kind |-> "Province", err |-> IntegrityError]
    /\ province # {}
    /\ district # {}

\* C7: every stored Municipality and Place has a type among the choices of
\* its type field.
C7_TypeWithinChoices ==
    /\ \A m \in municipality : m.type \in MUNICIPALITY_TYPE_CHOICES
    /\ \A x \in place : x.type \in PLACE_TYPE_CHOICES

\* C9: the parent of every stored District is a Place of type CITY, a row of
\* the City view.
C9_DistrictParentIsCity ==
    \A d \in district :
       /\ parent(Obj("District", d.id)).kind = "City"
       /\ Row(place, parent(Obj("District", d.id)).id).type = CITY

\* Every stored entity below a Province has its parent stored.
WellFormed == \A e \in Entities : parent(e).kind # DoesNotExist

\* The display name as the rule states it, level by level: a Province's is
\* its name; any other entity's is its parent's when its own name occurs in
\* that, and else its name, ", " and its parent's.
Joined(nm, pd) == IF Contains(pd, nm) THEN pd ELSE nm \o <<",", " ">> \o pd

ProvinceDisplay(id) == Row(province, id).name

CountyDisplay(id) ==
    Joined(Row(county, id).name, ProvinceDisplay(Row(county, id).province))

MunicipalityDisplay(id) ==
    Joined(Row(municipality, id).name,
           CountyDisplay(Row(municipality, id).county))

PlaceDisplay(id) ==
    Joined(Row(place, id).name,
           MunicipalityDisplay(Row(place, id).municipality))

DistrictDisplay(id) ==
    Joined(Row(district, id).name, PlaceDisplay(Row(district, id).city))

Display(e) ==
    CASE e.kind = "Province" -> ProvinceDisplay(e.id)
      [] e.kind = "County" -> CountyDisplay(e.id)
      [] e.kind = "Municipality" -> MunicipalityDisplay(e.id)
      [] e.kind = "Place" -> PlaceDisplay(e.id)
      [] e.kind = "District" -> DistrictDisplay(e.id)

\* C1: in a well-formed hierarchy get_display_name(e) is e.name for a
\* Province, and for any other e it is pd = get_display_name(e.parent) when
\* e.name is a substring of pd and e.name + ", " + pd when it is not.
C1_DisplayName ==
    (pc = "done" /\ WellFormed) => ret = Str(Display(target))

\* The call on a Municipality named like its County has returned the
\* County's "name, province" unchanged.
C1_Witness ==
    /\ pc = "done"
    /\ WellFormed
    /\ target.kind = "Municipality"
    /\ name(target) = <<"a">>
    /\ ret = Str(<<"a", ",", " ", "b">>)

\* Some key on the parent chain of e is unset or names no row.
ChainBroken(e) ==
    LET c == IF e.kind = "County" THEN e.id ELSE "c1"
        bc == Row(county, c).province \notin Ids(province)
        bm == Row(municipality, "m1").county \notin Ids(county) \/ bc
        bx == Row(place, "x1").municipality \notin Ids(municipality) \/ bm
        bd == Row(district, "d1").city \notin Ids(place) \/ bx
    IN  CASE e.kind = "Province" -> FALSE
          [] e.kind = "County" -> bc
          [] e.kind = "Municipality" -> bm
          [] e.kind = "Place" -> bx
          [] e.kind = "District" -> bd

\* C6: get_display_name on an entity with an unset or dangling key on its
\* parent chain ends with an exception, never with a string.
C6_BrokenChainRaises ==
    (pc = "done" /\ ChainBroken(target)) => ret = Exc

\* The call on the District has ended with the exception raised three levels
\* up, where the County's province is not stored.
C6_Witness ==
    /\ pc = "done"
    /\ target.kind = "District"
    /\ Row(county, "c1").province \notin Ids(province)
    /\ ret = Exc

\* C8: in a well-formed hierarchy a call of get_display_name ends, and never
\* has more than 6 nested calls in progress.
C8_BoundedRecursion ==
    /\ [](WellFormed => Len(stack) <= 6)
    /\ (WellFormed /\ pc = "running") ~> (pc = "done")

\* The call on a District has its deepest frame, the Province's, in progress.
C8_Witness ==
    /\ WellFormed
    /\ pc = "running"
    /\ Len(stack) = 5
    /\ stack[1].kind = "District"
    /\ Top.kind = "Province"

\* The name of the Province the parent chain of e ends in.
RootName(e) ==
    CASE e.kind = "Province" -> Row(province, e.id).name
      [] e.kind = "County" -> Row(province, Row(county, e.id).province).name
      [] OTHER -> Row(province, Row(county, "c1").province).name

====
